---- MODULE Spec2Model ----
(***************************************************************************)
(* medqc: timeline reconstruction and rule evaluation for medical records. *)
(*                                                                         *)
(* Modelled sources: medqc_rules.py (rule evaluators, profile inference,   *)
(* run_rules), medqc_timeline.py (build_timeline), medqc_entities.py       *)
(* (run_entities) and medqc_db.py (the events table).                      *)
(*                                                                         *)
(* Representation of values                                                *)
(*   - A timestamp column holds SQL NULL / Python None (None), the empty   *)
(*     string (EmptyStr) or an ISO string "2025-01-DDTHH:MM".  An ISO      *)
(*     string is kept as the tuple of its fixed-width fields <<DD,HH,MM>>; *)
(*     the year and month are the same in every string of the model.       *)
(*     Python compares such strings character by character, which for      *)
(*     fixed-width zero-padded fields is the lexicographic order of the    *)
(*     field tuple (StrLess).  A parsed datetime is [date, tod] (day and   *)
(*     minute of the day); its position on the time line is Minutes(dt).   *)
(*   - A violation is the tuple the evaluators return, (rule_id, severity, *)
(*     message), as a record; the message is a record of the message kind  *)
(*     and of the values the text is formatted from.                       *)
(*   - The result of calling an evaluator is [raised, err, vlist]: either  *)
(*     it returned the list vlist or it raised the exception err.          *)
(***************************************************************************)
EXTENDS Integers, Sequences, FiniteSets, TLC

VARIABLES
  inp,         \* what is given: the documents (docs rows, text, sections) or a pure function's arguments
  out,         \* the value returned by the last pure call (NoOut in the pipeline specification)
  events,      \* table events: doc_id -> rows in rowid order
  entities,    \* table entities: doc_id -> rows in rowid order
  violations,  \* table violations (committed rows): doc_id -> rows in rowid order
  norm_rules,  \* table norm_rules: the rule catalog
  run,         \* the rule runs in progress: process -> locals of run_rules
  norm_packages, \* table norm_packages: the rule packages with status and lock
  proc         \* the other commands in progress (cmd_export, orchestrate_one): their locals

vars == <<inp, out, events, entities, violations, norm_rules, run, norm_packages, proc>>

---------------------------------------------------------------------------
(* Values *)

None == <<-1>>

EmptyStr == <<>>

T(d, h, m) == <<d, h, m>>

IsIso(s) == Len(s) = 3

NoDt == [date |-> -1, tod |-> -1]

Minutes(dt) == dt.date * 1440 + dt.tod

DateOf(dt) == dt.date

Ev(k, ts) == [kind |-> k, ts |-> ts]

Absent == -1

Returned(vs) == [raised |-> FALSE, err |-> "", vlist |-> vs]

Raised(e) == [raised |-> TRUE, err |-> e, vlist |-> <<>>]

V(rid, sev, msg) == [rule_id |-> rid, severity |-> sev, message |-> msg]

SeqsUpTo(S, n) == UNION {[1..k -> S] : k \in 0..n}

RECURSIVE PickFrom(_, _, _)
PickFrom(s, keep, i) ==
  IF i > Len(s) THEN <<>>
  ELSE (IF i \in keep THEN <<s[i]>> ELSE <<>>) \o PickFrom(s, keep, i + 1)

Pick(s, keep) == PickFrom(s, keep, 1)

MinOf(S) == CHOOSE x \in S : \A y \in S : x <= y

Take(s, n) == IF Len(s) <= n THEN s ELSE SubSeq(s, 1, n)

---------------------------------------------------------------------------
(* medqc_rules.py: helpers *)

parse_iso_any(s) ==
  IF s = None \/ s = EmptyStr THEN NoDt ELSE [date |-> s[1], tod |-> s[2] * 60 + s[3]]

RowTs(ev) == ev.ts

RECURSIVE LastTsFrom(_, _, _, _)
LastTsFrom(evs, kinds, i, acc) ==
  IF i > Len(evs) THEN acc
  ELSE LastTsFrom(evs, kinds, i + 1,
                  IF evs[i].kind \in kinds THEN parse_iso_any(RowTs(evs[i])) ELSE acc)

LastTs(evs, kinds) == LastTsFrom(evs, kinds, 1, NoDt)

NoEvent == [kind |-> "", ts |-> None]

KindIdx(evs, kind_name) == {i \in 1..Len(evs) : evs[i].kind = kind_name}

_find_event(evs, kind_name) ==
  IF KindIdx(evs, kind_name) = {} THEN NoEvent ELSE evs[MinOf(KindIdx(evs, kind_name))]

_get_ts(ev) == IF ev = NoEvent THEN NoDt ELSE parse_iso_any(RowTs(ev))

_list_events(evs, kind_name) == Pick(evs, KindIdx(evs, kind_name))

NoteDates(evs) ==
  {DateOf(parse_iso_any(RowTs(evs[i]))) :
     i \in {j \in 1..Len(evs) : evs[j].kind = "daily_note"
                                /\ parse_iso_any(RowTs(evs[j])) # NoDt}}

RECURSIVE MissingFrom(_, _, _, _)
MissingFrom(first, i, days, have) ==
  IF i >= days THEN <<>>
  ELSE (IF (first + i) \in have THEN <<>> ELSE <<first + i>>)
       \o MissingFrom(first, i + 1, days, have)

IntParam(params, key, default) == IF params[key] = Absent THEN default ELSE params[key]

---------------------------------------------------------------------------
(* medqc_rules.py: rule evaluators.  Every evaluator takes                 *)
(* (doc, sections, entities, events, params) as in the source.             *)

rule_STA_001(doc, sections, ents, evs, params) ==
  LET admit     == LastTs(evs, {"admit"})
      discharge == LastTs(evs, {"discharge"})
      days      == (DateOf(discharge) - DateOf(admit)) + 1
      missing   == MissingFrom(DateOf(admit), 0, days, NoteDates(evs))
  IN  IF admit = NoDt \/ discharge = NoDt THEN Returned(<<>>)
      ELSE IF days <= 1 THEN Returned(<<>>)
      ELSE IF missing # <<>>
           THEN Returned(<<V("STA-001", "major",
                             [kind |-> "missing_days", days |-> Take(missing, 5),
                              more |-> Len(missing) > 5])>>)
           ELSE Returned(<<>>)

rule_STA_002(doc, sections, ents, evs, params) ==
  LET limit_h  == IntParam(params, "within_hours", 6)
      admit_ts == LastTs(evs, {"admit"})
      init_ts  == LastTs(evs, {"initial_exam", "exam_initial"})
      delta    == Minutes(init_ts) - Minutes(admit_ts)
  IN  IF admit_ts # NoDt /\ init_ts # NoDt
      THEN IF delta > limit_h * 60
           THEN Returned(<<V("STA-002", "critical",
                             [kind |-> "late", delta |-> delta, unit |-> "h", limit |-> limit_h])>>)
           ELSE Returned(<<>>)
      ELSE Returned(<<V("STA-002", "critical", [kind |-> "no_data"])>>)

rule_ER_001(doc, sections, ents, evs, params) ==
  LET limit_min == IntParam(params, "within_minutes", 15)
      admit     == LastTs(evs, {"admit"})
      triage    == LastTs(evs, {"triage"})
      delta     == Minutes(triage) - Minutes(admit)
  IN  IF admit = NoDt \/ triage = NoDt
      THEN Returned(<<V("ER-001", "critical", [kind |-> "no_data"])>>)
      ELSE IF delta > limit_min
           THEN Returned(<<V("ER-001", "critical",
                             [kind |-> "late", delta |-> delta, unit |-> "min", limit |-> limit_min])>>)
           ELSE Returned(<<>>)

_rule_primary_exam_within(doc, sections, ents, evs, params, rule_id, default_hours) ==
  LET limit_h  == IntParam(params, "PRIMARY_EXAM_HOURS", default_hours)
      admit_ts == _get_ts(_find_event(evs, "admit"))
      init     == IF _find_event(evs, "initial_exam") # NoEvent
                  THEN _find_event(evs, "initial_exam")
                  ELSE _find_event(evs, "exam_initial")
      init_ts  == _get_ts(init)
      delta    == Minutes(init_ts) - Minutes(admit_ts)
  IN  IF admit_ts # NoDt /\ init_ts # NoDt
      THEN IF delta > limit_h * 60
           THEN Returned(<<V(rule_id, "critical",
                             [kind |-> "late", delta |-> delta, unit |-> "h", limit |-> limit_h])>>)
           ELSE Returned(<<>>)
      ELSE Returned(<<V(rule_id, "critical", [kind |-> "no_data"])>>)

_rule_daily_notes_every_day(rule_id, doc, evs) ==
  LET admit_ts == _get_ts(_find_event(evs, "admit"))
      dch_ts   == _get_ts(_find_event(evs, "discharge"))
      days     == (DateOf(dch_ts) - DateOf(admit_ts)) + 1
  IN  IF admit_ts = NoDt \/ dch_ts = NoDt THEN Returned(<<>>)
      ELSE IF days <= 1 THEN Returned(<<>>)
      ELSE Raised("AttributeError")

_has_entity(ents, etype_name, chest_text) ==
  \E i \in 1..Len(ents) : ents[i].etype = etype_name /\ (chest_text => ents[i].chest)

_has_text_keywords(sections) == \E i \in 1..Len(sections) : sections[i].chest

rule_ER_004(doc, sections, ents, evs, params) ==
  LET max_min   == IntParam(params, "ECG_MAX_MIN", 10)
      has_chest == \/ _has_entity(ents, "complaint", TRUE)
                   \/ _has_entity(ents, "symptom", TRUE)
                   \/ _has_text_keywords(sections)
      admit_ts  == _get_ts(_find_event(evs, "admit"))
      ecg       == _find_event(evs, "ecg")
      delta     == Minutes(_get_ts(ecg)) - Minutes(admit_ts)
  IN  IF ~has_chest THEN Returned(<<>>)
      ELSE IF admit_ts = NoDt \/ ecg = NoEvent
           THEN Returned(<<V("ER-004", "critical", [kind |-> "no_data"])>>)
      ELSE IF _get_ts(ecg) = NoDt THEN Raised("TypeError")
      ELSE IF delta > max_min
           THEN Returned(<<V("ER-004", "critical",
                             [kind |-> "late", delta |-> delta, unit |-> "min", limit |-> max_min])>>)
           ELSE Returned(<<>>)

_iter_med_orders(ents) == Pick(ents, {i \in 1..Len(ents) : ents[i].etype = "med_order"})

DefaultAttrs == <<"dose", "route", "freq">>

NoList == <<"#absent">>

Present(ent, req) == {req[i] : i \in {j \in 1..Len(req) : req[j] \in ent.attrs}}

rule_STA_006_per_order(doc, sections, ents, evs, params) ==
  LET req    == IF params["REQUIRED_ATTRS"] = NoList THEN DefaultAttrs
                ELSE params["REQUIRED_ATTRS"]
      orders == _iter_med_orders(ents)
      bad    == Pick(orders, {i \in 1..Len(orders) : Cardinality(Present(orders[i], req)) < 2})
  IN  Returned([i \in 1..Len(bad) |->
                  V("STA-006", "major", [kind |-> "incomplete", count |-> 1, req |-> req])])

rule_STA_006(doc, sections, ents, evs, params) ==
  LET req    == IF params["REQUIRED_ATTRS"] = NoList THEN DefaultAttrs
                ELSE params["REQUIRED_ATTRS"]
      orders == _iter_med_orders(ents)
      bad    == Pick(orders, {i \in 1..Len(orders) : Cardinality(Present(orders[i], req)) < 2})
  IN  IF bad # <<>>
      THEN Returned(<<V("STA-006", "major",
                        [kind |-> "incomplete", count |-> Len(bad), req |-> req])>>)
      ELSE Returned(<<>>)

rule_OBG_001(doc, sections, ents, evs, params) == _rule_daily_notes_every_day("OBG-001", doc, evs)

rule_OBG_002(doc, sections, ents, evs, params) ==
  _rule_primary_exam_within(doc, sections, ents, evs, params, "OBG-002", 6)

rule_PED_001(doc, sections, ents, evs, params) == _rule_daily_notes_every_day("PED-001", doc, evs)

rule_NEURO_001(doc, sections, ents, evs, params) == _rule_daily_notes_every_day("NEURO-001", doc, evs)

rule_STA_010(doc, sections, ents, evs, params) ==
  LET dch == LastTs(evs, {"discharge"})
      has == \E i \in 1..Len(ents) :
               /\ ents[i].etype = "discharge_summary"
               /\ parse_iso_any(RowTs(ents[i])) # NoDt
               /\ DateOf(parse_iso_any(RowTs(ents[i]))) = DateOf(dch)
  IN  IF dch = NoDt THEN Returned(<<>>)
      ELSE IF ~has THEN Returned(<<V("STA-010", "major", [kind |-> "no_summary"])>>)
      ELSE Returned(<<>>)

_rule_discharge_same_day(rule_id, doc, ents, evs) ==
  LET dch_ts == _get_ts(_find_event(evs, "discharge"))
  IN  IF dch_ts = NoDt THEN Returned(<<>>)
      ELSE IF \E i \in 1..Len(ents) :
                /\ ents[i].etype = "discharge_summary"
                /\ parse_iso_any(RowTs(ents[i])) # NoDt
                /\ DateOf(parse_iso_any(RowTs(ents[i]))) = DateOf(dch_ts)
           THEN Returned(<<>>)
           ELSE Returned(<<V(rule_id, "major", [kind |-> "no_summary"])>>)

rule_PED_004(doc, sections, ents, evs, params) ==
  _rule_discharge_same_day("PED-004", doc, ents, evs)

ImplIds == {"STA-001", "STA-002", "STA-010", "ER-001", "STA-006", "ER-004",
            "OBG-001", "OBG-002", "PED-001", "PED-004", "NEURO-001"}

RULE_IMPL(rid, doc, sections, ents, evs, params) ==
  CASE rid = "STA-001"   -> rule_STA_001(doc, sections, ents, evs, params)
    [] rid = "STA-002"   -> rule_STA_002(doc, sections, ents, evs, params)
    [] rid = "ER-001"    -> rule_ER_001(doc, sections, ents, evs, params)
    [] rid = "STA-006"   -> rule_STA_006(doc, sections, ents, evs, params)
    [] rid = "ER-004"    -> rule_ER_004(doc, sections, ents, evs, params)
    [] rid = "OBG-001"   -> rule_OBG_001(doc, sections, ents, evs, params)
    [] rid = "OBG-002"   -> rule_OBG_002(doc, sections, ents, evs, params)
    [] rid = "PED-001"   -> rule_PED_001(doc, sections, ents, evs, params)
    [] rid = "NEURO-001" -> rule_NEURO_001(doc, sections, ents, evs, params)
    [] rid = "STA-010"   -> rule_STA_010(doc, sections, ents, evs, params)
    [] rid = "PED-004"   -> rule_PED_004(doc, sections, ents, evs, params)

---------------------------------------------------------------------------
(* medqc_timeline.py.                                                      *)
(*                                                                         *)
(* The text of a section is kept as the matches DT_RE finds in it, in text *)
(* order: a token [pos, fmt, d, h, m] is a match at offset pos that reads  *)
(* as a date with a time ("datetime"), a date alone ("date"), a bare time  *)
(* ("time") or something no format of DT_PARSE_ORDER parses ("invalid").   *)
(* strptime gives a bare time the date 1900-01-01, which is day 0 here.    *)

Tok(pos, fmt, d, h, m) == [pos |-> pos, fmt |-> fmt, d |-> d, h |-> h, m |-> m]

Section(id, kind, start, toks) == [section_id |-> id, kind |-> kind, start |-> start, toks |-> toks]

Entity(etype, sec, start) == [etype |-> etype, section_id |-> sec, start |-> start]

NoSection == 0

SECTION_EVENT_MAP == {"admit", "triage", "initial_exam", "daily_note", "ecg", "epicrisis"}

parse_dt_any(tok) ==
  CASE tok.fmt = "datetime" -> [date |-> tok.d, tod |-> tok.h * 60 + tok.m]
    [] tok.fmt = "date"     -> [date |-> tok.d, tod |-> 0]
    [] tok.fmt = "time"     -> [date |-> 0, tod |-> tok.h * 60 + tok.m]
    [] OTHER                -> NoDt

isoformat(dt) == <<dt.date, dt.tod \div 60, dt.tod % 60>>

Parsed(toks) == Pick(toks, {i \in 1..Len(toks) : parse_dt_any(toks[i]) # NoDt})

pick_section_timestamp(s) ==
  IF Parsed(s.toks) = <<>> THEN None ELSE isoformat(parse_dt_any(Parsed(s.toks)[1]))

section_dt_list(s) ==
  [i \in 1..Len(Parsed(s.toks)) |->
     [pos |-> Parsed(s.toks)[i].pos, iso |-> isoformat(parse_dt_any(Parsed(s.toks)[i]))]]

SectionById(sections, id) ==
  sections[CHOOSE i \in 1..Len(sections) : sections[i].section_id = id]

HasSection(sections, id) == \E i \in 1..Len(sections) : sections[i].section_id = id

DtsOf(sections, id) ==
  IF HasSection(sections, id) THEN section_dt_list(SectionById(sections, id)) ELSE <<>>

Dist(a, b) == IF a < b THEN b - a ELSE a - b

nearest_dt_iso(sections, sec_id, pos) ==
  IF sec_id = NoSection THEN None
  ELSE LET cands == DtsOf(sections, sec_id)
       IN  IF cands = <<>> THEN None
           ELSE cands[MinOf({k \in 1..Len(cands) :
                               \A j \in 1..Len(cands) :
                                  Dist(cands[k].pos, pos) <= Dist(cands[j].pos, pos)})].iso

TEvent(kind, when, sec, start) == [kind |-> kind, when |-> when, section_id |-> sec, start |-> start]

SectionIso(doc, s) ==
  IF pick_section_timestamp(s) # None THEN pick_section_timestamp(s)
  ELSE IF s.kind = "admit" THEN doc.admit_dt ELSE None

SectionEvents(doc, sections) ==
  LET mapped == Pick(sections, {i \in 1..Len(sections) : sections[i].kind \in SECTION_EVENT_MAP})
  IN  [i \in 1..Len(mapped) |->
         TEvent(mapped[i].kind, SectionIso(doc, mapped[i]), mapped[i].section_id, mapped[i].start)]

DiagnosisEvents(doc, sections, ents) ==
  LET dx == Pick(ents, {i \in 1..Len(ents) : ents[i].etype = "diagnosis"})
  IN  [i \in 1..Len(dx) |->
         TEvent("diagnosis",
                IF DtsOf(sections, dx[i].section_id) # <<>>
                THEN DtsOf(sections, dx[i].section_id)[1].iso ELSE doc.admit_dt,
                dx[i].section_id, dx[i].start)]

NearestEvents(sections, ents, etype) ==
  LET es == Pick(ents, {i \in 1..Len(ents) : ents[i].etype = etype})
  IN  [i \in 1..Len(es) |->
         TEvent(etype, nearest_dt_iso(sections, es[i].section_id, es[i].start),
                es[i].section_id, es[i].start)]

CollectEvents(doc, sections, ents) ==
  SectionEvents(doc, sections) \o DiagnosisEvents(doc, sections, ents)
  \o NearestEvents(sections, ents, "medication") \o NearestEvents(sections, ents, "vital")

(* Python compares the keys (bool, str): False < True, then the strings.   *)
MaxStr == <<9999, 12, 31>>

StrLess(a, b) ==
  \/ \E k \in 1..Len(a) : k <= Len(b) /\ a[k] < b[k] /\ \A j \in 1..(k - 1) : a[j] = b[j]
  \/ Len(a) < Len(b) /\ \A j \in 1..Len(a) : a[j] = b[j]

sort_key_none_first(ev) ==
  [null |-> FALSE, str |-> IF ev.when = None \/ ev.when = EmptyStr THEN EmptyStr ELSE ev.when]

sort_key(ev) ==
  [null |-> ev.when = None,
   str  |-> IF ev.when = None \/ ev.when = EmptyStr THEN MaxStr ELSE ev.when]

KeyLess(a, b) == IF a.null # b.null THEN b.null ELSE StrLess(a.str, b.str)

(* list.sort is stable: an element goes after every element that is not    *)
(* greater than it.                                                        *)
RECURSIVE InsertByKey(_, _)
InsertByKey(sorted, e) ==
  IF sorted = <<>> THEN <<e>>
  ELSE IF KeyLess(sort_key(e), sort_key(Head(sorted))) THEN <<e>> \o sorted
       ELSE <<Head(sorted)>> \o InsertByKey(Tail(sorted), e)

RECURSIVE SortFrom(_, _, _)
SortFrom(evs, i, acc) ==
  IF i > Len(evs) THEN acc ELSE SortFrom(evs, i + 1, InsertByKey(acc, evs[i]))

SortEvents(evs) == SortFrom(evs, 1, <<>>)

(* The list build_timeline passes to db.replace_events, or the error it    *)
(* returns.  n is the position at which the event was appended.            *)
Numbered(evs) ==
  [i \in 1..Len(evs) |->
     [kind |-> evs[i].kind, when |-> evs[i].when, section_id |-> evs[i].section_id,
      start |-> evs[i].start, n |-> i]]

build_timeline(doc, sections, ents) ==
  IF ~doc.has_text THEN [error |-> "NO_TEXT", events |-> <<>>]
  ELSE [error |-> "", events |-> SortEvents(Numbered(CollectEvents(doc, sections, ents)))]

---------------------------------------------------------------------------
(* The rule catalog (tables norm_packages and norm_rules).                 *)

DefaultParams ==
  [within_hours |-> Absent, within_minutes |-> Absent, PRIMARY_EXAM_HOURS |-> Absent,
   ECG_MAX_MIN |-> Absent, REQUIRED_ATTRS |-> NoList]

(* effective_from and effective_to are day numbers, Absent when NULL.     *)
Rule(rid, prof, sev, en, pkg, params) ==
  [rule_id |-> rid, profile |-> prof, severity |-> sev, enabled |-> en,
   pkg_id |-> pkg, params |-> params, effective_from |-> Absent, effective_to |-> Absent]

ActivePkgs == {1}

Package(id, name, version) ==
  [pkg_id |-> id, name |-> name, version |-> version, status |-> "draft", locked |-> 0,
   digest |-> FALSE]

NormPackages ==
  { Package(1, "rules-pack-stationary-er", "2025-09-07"),
    Package(2, "rules-pack-stationary-er", "2025-10-01") }

NoProc == <<>>

(* A package argument that is None or the empty string.                    *)
NoArg == ""

Catalog ==
  { Rule("ER-001",    "ER",    "critical", TRUE,  1, DefaultParams),
    Rule("ER-001",    "ER",    "major",    TRUE,  2, [DefaultParams EXCEPT !.within_minutes = 30]),
    Rule("ER-004",    "ER",    "major",    TRUE,  1, DefaultParams),
    Rule("STA-001",   "STA",   "major",    TRUE,  1, DefaultParams),
    Rule("STA-002",   "STA",   "critical", TRUE,  1, DefaultParams),
    Rule("STA-006",   "STA",   "major",    TRUE,  1, DefaultParams),
    Rule("STA-006",   "STA",   "major",    TRUE,  2, [DefaultParams EXCEPT !.REQUIRED_ATTRS = <<"dose", "route">>]),
    Rule("OBG-001",   "OBG",   "major",    TRUE,  1, DefaultParams),
    [Rule("OBG-002",  "OBG",   "minor",    TRUE,  1, DefaultParams)
       EXCEPT !.effective_from = 2, !.effective_to = 3],
    Rule("PED-001",   "PED",   "major",    TRUE,  1, DefaultParams),
    Rule("NEURO-001", "NEURO", "major",    TRUE,  1, DefaultParams),
    Rule("STA-099",   "STA",   "major",    TRUE,  1, DefaultParams),
    Rule("STA-002",   "STA",   "critical", FALSE, 2, DefaultParams),
    Rule("STA-010",   "STA",   "major",    TRUE,  2, DefaultParams),
    Rule("PED-004",   "PED",   "major",    TRUE,  1, DefaultParams) }

---------------------------------------------------------------------------
(* Pure evaluation of one rule on given (sections, entities, events).      *)

NoOut == [rule |-> Rule("", "", "", FALSE, 0, DefaultParams), res |-> Returned(<<>>)]

Ent(t, chest, attrs, ts) == [etype |-> t, chest |-> chest, attrs |-> attrs, ts |-> ts]

MaxCoverageEvents == 4

MaxDeadlineEvents == 3

MaxOrders == 5

CoverageEvents ==
  { Ev("admit", T(1, 8, 0)),
    Ev("discharge", T(2, 10, 0)), Ev("discharge", T(4, 10, 0)),
    Ev("daily_note", T(1, 9, 0)), Ev("daily_note", T(2, 9, 0)), Ev("daily_note", T(3, 9, 0)) }

DeadlineEvents ==
  { Ev("admit", T(1, 8, 0)), Ev("admit", None),
    Ev("triage", T(1, 8, 20)), Ev("triage", T(1, 7, 0)), Ev("triage", None),
    Ev("initial_exam", T(1, 15, 0)),
    Ev("ecg", T(1, 8, 20)), Ev("ecg", None) }

OrderEntities ==
  { Ent("med_order", FALSE, {}, None),
    Ent("med_order", FALSE, {"dose", "route"}, None),
    Ent("med_order", FALSE, {"dose", "route", "freq"}, None),
    Ent("complaint", FALSE, {}, None) }

ChestComplaint == Ent("complaint", TRUE, {}, None)

ChestSection == [kind |-> "complaints", chest |-> TRUE]

MaxSameDayEvents == 2

SameDayEvents ==
  { Ev("discharge", T(2, 10, 0)), Ev("discharge", None), Ev("epicrisis", T(2, 12, 0)) }

SameDayEntities ==
  { <<>>,
    <<Ent("discharge_summary", FALSE, {}, T(2, 9, 0))>>,
    <<Ent("discharge_summary", FALSE, {}, T(3, 9, 0))>>,
    <<Ent("discharge_summary", FALSE, {}, None), Ent("discharge_summary", FALSE, {}, T(2, 9, 0))>> }

RuleInput(secs, ents, evs) == [sections |-> secs, entities |-> ents, events |-> evs]

RuleInputs ==
  {RuleInput(<<>>, <<>>, evs) : evs \in SeqsUpTo(CoverageEvents, MaxCoverageEvents)}
  \cup {RuleInput(x[1], x[2], evs) :
          x \in {<<<<>>, <<>>>>, <<<<>>, <<ChestComplaint>>>>},
          evs \in SeqsUpTo(DeadlineEvents, MaxDeadlineEvents)}
  \cup {RuleInput(<<ChestSection>>, <<>>, evs) :
          evs \in {<<>>, <<Ev("admit", T(1, 8, 0)), Ev("ecg", T(1, 8, 20))>>}}
  \cup {RuleInput(<<>>, ents, <<>>) : ents \in SeqsUpTo(OrderEntities, MaxOrders)}
  \cup {RuleInput(<<>>, ents, evs) :
          ents \in SameDayEntities, evs \in SeqsUpTo(SameDayEvents, MaxSameDayEvents)}

EmptyTable == [d \in {"A", "B"} |-> <<>>]

InitRules ==
  /\ inp \in RuleInputs
  /\ out = NoOut
  /\ events = EmptyTable
  /\ entities = EmptyTable
  /\ violations = EmptyTable
  /\ norm_rules = Catalog
  /\ norm_packages = NormPackages
  /\ proc = NoProc
  /\ run = <<>>

Evaluate(r) ==
  /\ out = NoOut
  /\ r.rule_id \in ImplIds
  /\ out' = [rule |-> r,
             res  |-> RULE_IMPL(r.rule_id, "doc", inp.sections, inp.entities, inp.events, r.params)]
  /\ UNCHANGED <<inp, events, entities, violations, norm_rules, run, norm_packages, proc>>

NextRules == \E r \in norm_rules : Evaluate(r)

SpecRules == InitRules /\ [][NextRules]_vars

---------------------------------------------------------------------------
(* Properties of the rule evaluators (SpecRules).                          *)

Evaluated == out # NoOut

HasInstant(ts) == ts # None /\ ts # EmptyStr

TimeOf(ts) == ts[1] * 1440 + ts[2] * 60 + ts[3]

DayOf(ts) == ts[1]

InEvents(kinds) == {i \in 1..Len(inp.events) : inp.events[i].kind \in kinds}

WithInstant(kinds) == {i \in InEvents(kinds) : HasInstant(inp.events[i].ts)}

TheInstant(kinds) == inp.events[CHOOSE i \in WithInstant(kinds) : TRUE].ts

OneResolved(kinds) ==
  Cardinality(InEvents(kinds)) = 1 /\ Cardinality(WithInstant(kinds)) = 1

Abs(x) == IF x < 0 THEN -x ELSE x

CoverageIds == {"STA-001", "OBG-001", "PED-001", "NEURO-001"}

CoveredDays == DayOf(TheInstant({"admit"})) .. DayOf(TheInstant({"discharge"}))

NotedDays == {DayOf(inp.events[i].ts) : i \in WithInstant({"daily_note"})}

MissingDays == CoveredDays \ NotedDays

SeqRange(s) == {s[i] : i \in 1..Len(s)}

(* C7: a daily-coverage rule (STA-001 and the variants built on            *)
(* _rule_daily_notes_every_day), when admit and discharge resolve and span *)
(* more than one calendar day, emits exactly one violation if some date of *)
(* [admit.date, discharge.date] has no daily_note and none otherwise, and  *)
(* the violation reports exactly the missing dates.                        *)
C7_DailyCoverage ==
  ( /\ Evaluated
    /\ out.rule.rule_id \in CoverageIds
    /\ OneResolved({"admit"}) /\ OneResolved({"discharge"})
    /\ DayOf(TheInstant({"discharge"})) > DayOf(TheInstant({"admit"})) )
  => /\ ~out.res.raised
     /\ IF MissingDays = {} THEN out.res.vlist = <<>>
        ELSE /\ Len(out.res.vlist) = 1
             /\ out.res.vlist[1].message.kind = "missing_days"
             /\ SeqRange(out.res.vlist[1].message.days) = MissingDays
             /\ ~out.res.vlist[1].message.more

SameDayIds == {"STA-010", "PED-004"}

Companions ==
  {parse_iso_any(inp.entities[i].ts) :
     i \in {j \in 1..Len(inp.entities) :
              inp.entities[j].etype \in {"discharge_summary", "epicrisis"}}}
  \cup {parse_iso_any(inp.events[i].ts) :
          i \in InEvents({"discharge_summary", "epicrisis"})}

DischargeDay == DayOf(TheInstant({"discharge"}))

(* C11: a same-day-document rule (STA-010, PED-004), when some discharge   *)
(* event has an instant, emits exactly one violation unless an epicrisis   *)
(* or discharge_summary entity or event is dated the day of the discharge, *)
(* and emits nothing when no discharge event has an instant.               *)
C11_SameDayDocument ==
  (Evaluated /\ out.rule.rule_id \in SameDayIds)
  => /\ ~out.res.raised
     /\ IF WithInstant({"discharge"}) = {} THEN out.res.vlist = <<>>
        ELSE IF \E c \in Companions : c # NoDt /\ DateOf(c) = DischargeDay
             THEN out.res.vlist = <<>>
             ELSE /\ Len(out.res.vlist) = 1
                  /\ out.res.vlist[1].rule_id = out.rule.rule_id

DeadlineB(rid) ==
  CASE rid = "ER-001"  -> {"triage"}
    [] rid = "STA-002" -> {"initial_exam", "exam_initial"}
    [] rid = "OBG-002" -> {"initial_exam", "exam_initial"}
    [] rid = "ER-004"  -> {"ecg"}

ThresholdMinutes(r) ==
  CASE r.rule_id = "ER-001"  ->
         (IF r.params.within_minutes = Absent THEN 15 ELSE r.params.within_minutes)
    [] r.rule_id = "STA-002" ->
         60 * (IF r.params.within_hours = Absent THEN 6 ELSE r.params.within_hours)
    [] r.rule_id = "ER-004"  ->
         (IF r.params.ECG_MAX_MIN = Absent THEN 10 ELSE r.params.ECG_MAX_MIN)

ChestPain ==
  \/ \E i \in 1..Len(inp.entities) :
        inp.entities[i].etype \in {"complaint", "symptom"} /\ inp.entities[i].chest
  \/ \E i \in 1..Len(inp.sections) : inp.sections[i].chest

Triggered(rid) == rid = "ER-004" => ChestPain

AbsDelta(rid) == Abs(TimeOf(TheInstant(DeadlineB(rid))) - TimeOf(TheInstant({"admit"})))

(* C8: a deadline-from-event rule (ER-001, STA-002, ER-004) whose event A  *)
(* (admit) and event B both have instants emits exactly one violation if   *)
(* |B.instant - A.instant| exceeds the rule's threshold and none           *)
(* otherwise; the violation is critical and carries the delta (admit       *)
(* 08:00, triage 08:20, threshold 15 minutes: one violation, delta 20).    *)
C8_DeadlineAbsolute ==
  ( /\ Evaluated
    /\ out.rule.rule_id \in {"ER-001", "STA-002", "ER-004"}
    /\ Triggered(out.rule.rule_id)
    /\ OneResolved({"admit"}) /\ OneResolved(DeadlineB(out.rule.rule_id)) )
  => /\ ~out.res.raised
     /\ IF AbsDelta(out.rule.rule_id) > ThresholdMinutes(out.rule)
        THEN /\ Len(out.res.vlist) = 1
             /\ out.res.vlist[1].severity = "critical"
             /\ out.res.vlist[1].message.kind = "late"
             /\ out.res.vlist[1].message.delta = AbsDelta(out.rule.rule_id)
        ELSE out.res.vlist = <<>>

NoDataRows == {i \in 1..Len(out.res.vlist) : out.res.vlist[i].message.kind = "no_data"}

(* C9: a deadline-from-event rule emits a 'no data' violation if and only  *)
(* if no event of kind A or no event of kind B with a resolvable instant   *)
(* exists; then exactly one, at the rule's configured severity, and the    *)
(* evaluator does not raise.                                               *)
C9_NoDataIff ==
  ( /\ Evaluated
    /\ out.rule.rule_id \in {"ER-001", "STA-002", "ER-004", "OBG-002"}
    /\ Triggered(out.rule.rule_id) )
  => /\ ~out.res.raised
     /\ IF WithInstant({"admit"}) = {} \/ WithInstant(DeadlineB(out.rule.rule_id)) = {}
        THEN /\ Cardinality(NoDataRows) = 1
             /\ \A i \in NoDataRows : out.res.vlist[i].severity = out.rule.severity
        ELSE NoDataRows = {}

RequiredSet(r) ==
  IF r.params.REQUIRED_ATTRS = NoList THEN {"dose", "route", "freq"}
  ELSE SeqRange(r.params.REQUIRED_ATTRS)

MedOrders == {i \in 1..Len(inp.entities) : inp.entities[i].etype = "med_order"}

Deficient(req) == {i \in MedOrders : Cardinality(inp.entities[i].attrs \cap req) < 2}

---------------------------------------------------------------------------
(* One call of build_timeline on given sections and entities.              *)

MaxSections == 3

MaxEntities == 1

SectionShapes ==
  { [kind |-> "admit",      toks |-> <<>>],
    [kind |-> "admit",      toks |-> <<Tok(3, "datetime", 1, 8, 0)>>],
    [kind |-> "daily_note", toks |-> <<Tok(0, "datetime", 1, 14, 0)>>],
    [kind |-> "daily_note", toks |-> <<Tok(0, "datetime", 1, 9, 0)>>],
    [kind |-> "daily_note", toks |-> <<Tok(0, "date", 2, 0, 0)>>],
    [kind |-> "orders",     toks |-> <<Tok(5, "invalid", 0, 0, 0), Tok(10, "datetime", 2, 7, 0),
                                       Tok(40, "time", 0, 6, 0)>>],
    [kind |-> "ecg",        toks |-> <<Tok(7, "time", 0, 8, 20)>>] }

SectionWidth == 100

PlaceSection(shape, idx) ==
  Section(idx, shape.kind, idx * SectionWidth,
          [k \in 1..Len(shape.toks) |->
             Tok(idx * SectionWidth + shape.toks[k].pos, shape.toks[k].fmt,
                 shape.toks[k].d, shape.toks[k].h, shape.toks[k].m)])

PlaceSections(shapes) == [i \in 1..Len(shapes) |-> PlaceSection(shapes[i], i)]

TimelineEntities ==
  { Entity("diagnosis", 1, 120), Entity("vital", 2, 238), Entity("med_order", 1, 130) }

AdmitDts == {None, EmptyStr, T(1, 7, 30)}

Doc(admit_dt, has_text, dept) == [admit_dt |-> admit_dt, has_text |-> has_text, dept |-> dept]

TimelineInputs ==
  {[doc |-> Doc(a, TRUE, {}), sections |-> PlaceSections(ss), entities |-> es] :
     a \in AdmitDts, ss \in SeqsUpTo(SectionShapes, MaxSections),
     es \in SeqsUpTo(TimelineEntities, MaxEntities)}
  \cup {[doc |-> Doc(a, FALSE, {}), sections |-> <<>>, entities |-> <<>>] : a \in AdmitDts}

NoTimeline == [error |-> "not run", events |-> <<>>]

InitTimeline ==
  /\ inp \in TimelineInputs
  /\ out = NoTimeline
  /\ events = EmptyTable
  /\ entities = EmptyTable
  /\ violations = EmptyTable
  /\ norm_rules = Catalog
  /\ norm_packages = NormPackages
  /\ proc = NoProc
  /\ run = <<>>

BuildTimeline ==
  /\ out = NoTimeline
  /\ out' = build_timeline(inp.doc, inp.sections, inp.entities)
  /\ UNCHANGED <<inp, events, entities, violations, norm_rules, run, norm_packages, proc>>

NextTimeline == BuildTimeline

SpecTimeline == InitTimeline /\ [][NextTimeline]_vars

Built == out # NoTimeline /\ out.error = ""

(* The entity types that stand for an event, with the kind of that event.  *)
EntityKind(etype) ==
  CASE etype = "discharge_summary" -> "epicrisis"
    [] etype = "symptom"           -> "complaint"
    [] etype = "isolation"         -> "infection_control"
    [] etype = "exam_initial"      -> "initial_exam"
    [] OTHER                       -> etype

MappedEtypes ==
  {"discharge_summary", "med_order", "complaint", "symptom", "isolation", "exam_initial",
   "diagnosis", "medication", "vital"}

MappedSections == {i \in 1..Len(inp.sections) : inp.sections[i].kind \in SECTION_EVENT_MAP}

MappedEntities == {k \in 1..Len(inp.entities) : inp.entities[k].etype \in MappedEtypes}

(* C20: build_timeline emits one event for every section whose kind maps   *)
(* to an event kind and one for every entity whose etype maps to an event  *)
(* kind (med_order and the other mapped types as well as diagnosis,        *)
(* medication, vital), with a null instant when no timestamp is found: the *)
(* list has as many events as there are mapped sections and entities, and  *)
(* each of them has its event.                                             *)
C20_NothingDropped ==
  Built =>
    /\ Len(out.events) = Cardinality(MappedSections) + Cardinality(MappedEntities)
    /\ \A i \in MappedSections :
         \E n \in 1..Len(out.events) :
            /\ out.events[n].kind = inp.sections[i].kind
            /\ out.events[n].section_id = inp.sections[i].section_id
            /\ out.events[n].start = inp.sections[i].start
    /\ \A k \in MappedEntities :
         \E n \in 1..Len(out.events) :
            /\ out.events[n].kind = EntityKind(inp.entities[k].etype)
            /\ out.events[n].section_id = inp.entities[k].section_id
            /\ out.events[n].start = inp.entities[k].start

(* The instants written in the text of section s.                          *)
TextInstants(s) == {section_dt_list(s)[k].iso : k \in 1..Len(section_dt_list(s))}

AllTextInstants == UNION {TextInstants(inp.sections[i]) : i \in 1..Len(inp.sections)}

(* C21: in the timeline of build_timeline the document's admit_dt is the   *)
(* instant of an event only when the event is of kind admit and its        *)
(* section holds no timestamp; an event of any other kind carries an       *)
(* instant found in the text or a null instant.                            *)
C21_AdmitDtOnlyForAdmit ==
  Built =>
    \A n \in 1..Len(out.events) :
      LET ev == out.events[n]
      IN  IF ev.kind = "admit"
          THEN \/ ev.when \in TextInstants(SectionById(inp.sections, ev.section_id))
               \/ /\ TextInstants(SectionById(inp.sections, ev.section_id)) = {}
                  /\ ev.when = inp.doc.admit_dt
          ELSE ev.when = None \/ ev.when \in AllTextInstants

(* The values build_timeline derives from the bare HH:MM matches of the    *)
(* text: strptime fills in the date it was not given.                      *)
BareTimes ==
  UNION {{isoformat(parse_dt_any(inp.sections[i].toks[k])) :
            k \in {j \in 1..Len(inp.sections[i].toks) : inp.sections[i].toks[j].fmt = "time"}} :
         i \in 1..Len(inp.sections)}

(* C27: an instant obtained from a bare HH:MM match is never stored as a   *)
(* full-date instant and is not ordered against an event carrying a full   *)
(* date: no event of the timeline has such a value in the form of a        *)
(* complete instant, and none is placed before a full-date event by        *)
(* comparing the two.                                                      *)
C27_BareTimeKeptPartial ==
  Built =>
    /\ \A n \in 1..Len(out.events) :
         out.events[n].when \in BareTimes => ~IsIso(out.events[n].when)
    /\ \A i, j \in 1..Len(out.events) :
         (i < j /\ out.events[i].when \in BareTimes /\ IsIso(out.events[j].when)
                /\ out.events[j].when \notin BareTimes)
           => ~KeyLess(sort_key(out.events[i]), sort_key(out.events[j]))

NoteSections == {i \in 1..Len(inp.sections) : inp.sections[i].kind = "daily_note"}

NoteEvents == {i \in 1..Len(out.events) : out.events[i].kind = "daily_note"
                                          /\ IsIso(out.events[i].when)}

(* C6: in the events of a document after the timeline is built there is at *)
(* most one daily_note event per calendar day, and the one that survives   *)
(* for a day is the earliest candidate of that day.                        *)
C6_OneNotePerDay ==
  Built =>
    \A i, j \in NoteEvents :
      DayOf(out.events[i].when) = DayOf(out.events[j].when)
        => /\ i = j
           /\ \A s \in NoteSections :
                (pick_section_timestamp(inp.sections[s]) # None
                 /\ DayOf(pick_section_timestamp(inp.sections[s])) = DayOf(out.events[i].when))
                  => TimeOf(out.events[i].when) <= TimeOf(pick_section_timestamp(inp.sections[s]))

---------------------------------------------------------------------------
(* medqc_entities.py: run_entities.                                        *)
(*                                                                         *)
(* The full text of a document is kept as the keyword matches the          *)
(* extract_* functions find in it, in text order.  A match carries the     *)
(* date and time find_first_dt reads next to it: date_s is the day of the  *)
(* month (Absent when DT_RE finds nothing, 0 for a date datetime()         *)
(* rejects), time_s is <<h, m>> or NoTime when the time group is missing.  *)

NoTime == <<>>

TextMatch(kind, date_s, time_s) == [kind |-> kind, date_s |-> date_s, time_s |-> time_s]

to_iso(date_s, time_s) ==
  IF date_s = Absent THEN None
  ELSE LET hh == IF time_s = NoTime THEN 0 ELSE time_s[1]
           mm == IF time_s = NoTime THEN 0 ELSE time_s[2]
       IN  IF date_s \in 1..31 /\ hh \in 0..23 /\ mm \in 0..59
           THEN T(date_s, hh, mm) ELSE None

extract(text, kind) ==
  LET ms == Pick(text, {i \in 1..Len(text) : text[i].kind = kind})
  IN  [i \in 1..Len(ms) |-> Ev(kind, to_iso(ms[i].date_s, ms[i].time_s))]

RECURSIVE DedupNotes(_, _, _)
DedupNotes(rows, i, seen_dates) ==
  IF i > Len(rows) THEN <<>>
  ELSE IF rows[i].ts # None /\ rows[i].ts[1] \in seen_dates
       THEN DedupNotes(rows, i + 1, seen_dates)
       ELSE <<rows[i]>> \o
            DedupNotes(rows, i + 1,
                       IF rows[i].ts # None THEN seen_dates \cup {rows[i].ts[1]}
                       ELSE seen_dates)

EntRow(etype, ts) ==
  [etype |-> etype, chest |-> FALSE, attrs |-> {}, ts |-> ts, section_id |-> 0, start |-> 0]

ExtractedEvents(text) ==
  extract(text, "admit") \o extract(text, "discharge") \o extract(text, "initial_exam")
    \o extract(text, "triage") \o DedupNotes(extract(text, "daily_note"), 1, {})
    \o extract(text, "ecg") \o extract(text, "lab")

ExtractedEntities(text) ==
  LET ds == extract(text, "discharge_summary")
      mo == extract(text, "med_order")
  IN  [i \in 1..Len(ds) |-> EntRow("discharge_summary", ds[i].ts)]
        \o [i \in 1..Len(mo) |-> EntRow("med_order", mo[i].ts)]

insert_event(table, rows) == table \o rows

insert_entity(table, rows) == table \o rows

---------------------------------------------------------------------------
(* medqc_rules.py: reading a document's rows and selecting its rules.      *)
(*                                                                         *)
(* Russian synonyms are written in Latin letters.  Substrings(k) is the    *)
(* set of synonyms that occur in the kind string k; the kinds the writers  *)
(* of the events table produce contain at most their own canonical name.   *)

RU_EVENT_SYNONYMS ==
  << [canon |-> "admit",        syns |-> {"admit", "postup", "gospital"}],
     [canon |-> "discharge",    syns |-> {"discharge", "vypisk"}],
     [canon |-> "daily_note",   syns |-> {"daily_note", "ezhednev"}],
     [canon |-> "triage",       syns |-> {"triage", "sortirov"}],
     [canon |-> "ecg",          syns |-> {"ecg", "ekg"}],
     [canon |-> "lab",          syns |-> {"lab", "analiz", "laborat"}],
     [canon |-> "initial_exam", syns |-> {"initial_exam", "pervichn", "osmotr pri postup"}] >>

CanonKinds == {RU_EVENT_SYNONYMS[i].canon : i \in 1..Len(RU_EVENT_SYNONYMS)}

AllSynonyms == UNION {RU_EVENT_SYNONYMS[i].syns : i \in 1..Len(RU_EVENT_SYNONYMS)}

(* The upstream spellings: a synonym alone or followed by a second word.    *)
(* What can stand before and after a synonym inside such a string.         *)
After == {""} \cup {" " \o t : t \in AllSynonyms}

Before == {x \o y : x \in {""} \cup {t \o " " : t \in AllSynonyms}, y \in {"", "osmotr pri "}}

KindStrings == {a \o b : a \in AllSynonyms, b \in After}

(* str.lower()                                                             *)
Lower(k) ==
  CASE k = "ADMIT"   -> "admit"
    [] k = "EKG"     -> "ekg"
    [] k = "Konsult" -> "konsult"
    [] OTHER         -> k

(* The synonyms s with "s in k".  A canonical kind holds itself and no      *)
(* other synonym; a string that is no upstream spelling holds none.        *)
Substrings(k) ==
  IF k \in CanonKinds THEN {k}
  ELSE IF k \in KindStrings
       THEN {s \in AllSynonyms : \E p \in Before, q \in After : k = p \o s \o q}
       ELSE {}

_normalize_kind(kind) ==
  LET k    == Lower(kind)
      hits == {i \in 1..Len(RU_EVENT_SYNONYMS) :
                 RU_EVENT_SYNONYMS[i].syns \cap Substrings(k) # {}}
  IN  IF hits = {} THEN k ELSE RU_EVENT_SYNONYMS[MinOf(hits)].canon

get_events(table) == [i \in 1..Len(table) |-> Ev(_normalize_kind(table[i].kind), table[i].ts)]

get_entities(table) == table

DeptMapping ==
  { <<"infek", "INF">>, <<"pediatr", "PED">>, <<"kardiol", "CAR">>,
    <<"neirohir", "NEUROSURG">>, <<"neiro", "NEURO">>, <<"nefro", "NEPH">>,
    <<"pulmon", "PUL">>, <<"revmat", "RHEUM">>, <<"urolog", "URO">>,
    <<"gastro", "GIH">>, <<"gepat", "GIH">>, <<"onko", "ONC">>, <<"akush", "OBG">>,
    <<"ginek", "OBG">>, <<"travm", "TRAUMA">>, <<"hirurg", "SURG">>,
    <<"neonat", "NEO">>, <<"dnevn", "DAY">> }

(* doc.dept is the set of mapping keys that occur in the department name;  *)
(* the sorted list the function returns is kept as a set.                  *)
infer_profiles(doc, ents, evs) ==
  LET kinds        == {evs[i].kind : i \in 1..Len(evs)}
      admit_ts     == LastTs(evs, {"admit"})
      discharge_ts == LastTs(evs, {"discharge"})
  IN  (IF "triage" \in kinds THEN {"ER"} ELSE {})
        \cup (IF admit_ts # NoDt /\ discharge_ts # NoDt
                 /\ DateOf(admit_ts) = DateOf(discharge_ts) THEN {"DAY"} ELSE {})
        \cup {"STA"}
        \cup {m[2] : m \in {x \in DeptMapping : x[1] \in doc.dept}}

(* The rule ids of the catalog in the order of ORDER BY r.rule_id.         *)
RuleIdOrder ==
  << "ER-001", "ER-004", "NEURO-001", "OBG-001", "OBG-002", "PED-001",
     "PED-004", "STA-001", "STA-002", "STA-006", "STA-010", "STA-099" >>

RECURSIVE SetToSeq(_)
SetToSeq(S) ==
  IF S = {} THEN <<>> ELSE LET x == CHOOSE y \in S : TRUE IN <<x>> \o SetToSeq(S \ {x})

RECURSIVE OrderById(_, _)
OrderById(rows, i) ==
  IF i > Len(RuleIdOrder) THEN <<>>
  ELSE SetToSeq({r \in rows : r.rule_id = RuleIdOrder[i]}) \o OrderById(rows, i + 1)

(* package is <<package_name, package_version>>; the columns package_name  *)
(* and package_version of a rule are those of the package of its pkg_id.   *)
load_active_rules(catalog, profiles, package) ==
  IF package[1] # NoArg /\ package[2] # NoArg
  THEN OrderById({r \in catalog :
                    /\ r.enabled
                    /\ r.profile \in profiles
                    /\ r.pkg_id \in {p.pkg_id : p \in {q \in NormPackages :
                                         q.name = package[1] /\ q.version = package[2]}}}, 1)
  ELSE OrderById({r \in catalog : r.enabled /\ r.pkg_id \in ActivePkgs
                                    /\ r.profile \in profiles}, 1)

---------------------------------------------------------------------------
(* The pipeline over a store of documents (Spec).                          *)
(*                                                                         *)
(* inp[d] is what the earlier steps left for document d (its docs row, its *)
(* sections, its full text); events, entities and violations are the       *)
(* committed tables, one sequence of rows per doc_id in rowid order;       *)
(* out[d] is what the last event-building command on d printed; run[d] is  *)
(* the run_rules process of d: its position, the rows it read, its open    *)
(* transaction, and a record of what it has done.                          *)

Docs == {"A", "B"}

MaxRuns == 2

MaxBuilds == 2

WithChest(secs, chest) ==
  [i \in 1..Len(secs) |->
     [section_id |-> secs[i].section_id, kind |-> secs[i].kind, start |-> secs[i].start,
      toks |-> secs[i].toks, chest |-> i \in chest]]

Inpatient ==
  [doc      |-> Doc(EmptyStr, TRUE, {}),
   sections |-> WithChest(PlaceSections(
                  << [kind |-> "admit",      toks |-> <<Tok(3, "datetime", 1, 8, 0)>>],
                     [kind |-> "daily_note", toks |-> <<Tok(0, "datetime", 1, 14, 0)>>],
                     [kind |-> "daily_note", toks |-> <<>>] >>), {}),
   text     |-> << TextMatch("admit", 1, <<8, 0>>), TextMatch("daily_note", 1, <<9, 0>>),
                   TextMatch("med_order", Absent, NoTime),
                   TextMatch("daily_note", 1, <<14, 0>>),
                   TextMatch("discharge", 4, NoTime) >>]

Emergency ==
  [doc      |-> Doc(T(1, 7, 30), TRUE, {}),
   sections |-> WithChest(PlaceSections(
                  << [kind |-> "triage", toks |-> <<Tok(2, "datetime", 1, 8, 20)>>],
                     [kind |-> "ecg",    toks |-> <<>>] >>), {1}),
   text     |-> << TextMatch("admit", 1, <<8, 0>>), TextMatch("triage", 1, <<8, 20>>),
                   TextMatch("ecg", Absent, NoTime) >>]

NoText == [doc |-> Doc(None, FALSE, {}), sections |-> <<>>, text |-> <<>>]

(* Document A has text; document B is either like A or has not been        *)
(* extracted yet.                                                          *)
Stores ==
  { [d \in Docs |-> IF d = "A" THEN Inpatient ELSE NoText],
    [d \in Docs |-> IF d = "A" THEN Emergency ELSE Inpatient] }

PackageArgs == {<<NoArg, NoArg>>}

NoReturn == [op |-> "none", error |-> "", events |-> 0, entities |-> 0, n |-> 0]

RECURSIVE SumOver(_, _)
SumOver(f, S) ==
  IF S = {} THEN 0 ELSE LET x == CHOOSE y \in S : TRUE IN f[x] + SumOver(f, S \ {x})

NoResult == [profiles |-> {}, rules_checked |-> 0, violations |-> 0]

NoSnapshot == [package |-> <<NoArg, NoArg>>, entities |-> <<>>, events |-> <<>>, taken |-> FALSE]

IdleRun ==
  [pc |-> "idle", snap |-> NoSnapshot, profiles |-> {}, rules |-> <<>>, i |-> 1,
   tx |-> <<>>, written |-> <<>>, failed |-> {}, runs |-> 0, same |-> TRUE,
   result |-> NoResult, evaluated |-> <<>>, stale |-> FALSE]

Init ==
  /\ inp \in Stores
  /\ out = [d \in Docs |-> NoReturn]
  /\ events = EmptyTable
  /\ entities = EmptyTable
  /\ violations = EmptyTable
  /\ norm_rules = Catalog
  /\ norm_packages = NormPackages
  /\ proc = NoProc
  /\ run = [d \in Docs |-> IdleRun]

(* The commands issued so far: the model stops issuing them at MaxBuilds   *)
(* event-building commands and MaxRuns rule runs.                          *)
Builds == SumOver([d \in Docs |-> out[d].n], Docs)

Runs == SumOver([d \in Docs |-> run[d].runs], Docs)

(* SQLite lets one connection write at a time: a run_rules process holds   *)
(* the write lock from its first INSERT to its commit or close.            *)
WriteLocked == \E d \in Docs : run[d].pc = "eval" /\ run[d].tx # <<>>

(* run_entities(d): every row it inserts is committed by the one commit at *)
(* its end; nothing already stored for d is removed.                       *)
RunEntities(d) ==
  LET evs  == IF inp[d].doc.has_text THEN ExtractedEvents(inp[d].text) ELSE <<>>
      ents == IF inp[d].doc.has_text THEN ExtractedEntities(inp[d].text) ELSE <<>>
  IN  /\ ~WriteLocked
      /\ Builds < MaxBuilds
      /\ events' = [events EXCEPT ![d] = insert_event(@, evs)]
      /\ entities' = [entities EXCEPT ![d] = insert_entity(@, ents)]
      /\ out' = [out EXCEPT ![d] = [op |-> "entities", error |-> "",
                                    events |-> Len(evs), entities |-> Len(ents),
                                    n |-> @.n + 1]]
      /\ UNCHANGED <<inp, violations, norm_rules, run, norm_packages, proc>>

(* ReplaceEvents of the storage adapter: the rows of d are cleared and the *)
(* given events inserted in the given order, `when` going to column ts.    *)
replace_events(table, evs) == [i \in 1..Len(evs) |-> Ev(evs[i].kind, evs[i].when)]

(* DELETE FROM events WHERE doc_id=? and INSERT INTO events(doc_id, ...).  *)
clear_events_of_all(table, doc_id) == [d \in DOMAIN table |-> <<>>]

clear_events(table, doc_id) == [table EXCEPT ![doc_id] = <<>>]

add_event(table, doc_id, rows) == [table EXCEPT ![doc_id] = @ \o rows]

RunTimeline(d) ==
  LET res == build_timeline(inp[d].doc, inp[d].sections, entities[d])
  IN  /\ ~WriteLocked
      /\ Builds < MaxBuilds
      /\ events' = IF res.error = ""
                   THEN add_event(clear_events(events, d), d,
                                  replace_events(events[d], res.events))
                   ELSE events
      /\ out' = [out EXCEPT ![d] = [op |-> "timeline", error |-> res.error,
                                    events |-> Len(res.events), entities |-> 0,
                                    n |-> @.n + 1]]
      /\ UNCHANGED <<inp, entities, violations, norm_rules, run, norm_packages, proc>>

Conn(store, tx) == [store |-> store, tx |-> tx]

Row(v, rid) ==
  [rule_id |-> v.rule_id, severity |-> v.severity, message |-> v.message, sources |-> rid]

insert_violation_autocommit(conn, row) == Conn(Append(conn.store, row), conn.tx)

insert_violation(conn, row) == Conn(conn.store, Append(conn.tx, row))

RECURSIVE InsertAll(_, _, _, _)
InsertAll(conn, vlist, rid, k) ==
  IF k > Len(vlist) THEN conn
  ELSE InsertAll(insert_violation(conn, Row(vlist[k], rid)), vlist, rid, k + 1)

conn_commit(conn) == Conn(conn.store \o conn.tx, <<>>)

conn_close(conn) == Conn(conn.store, <<>>)

(* The except clause of the loop: a raising evaluator yields one row.      *)
Outcome(r, res) ==
  IF res.raised
  THEN <<V(r.rule_id, r.severity, [kind |-> "error", err |-> res.err])>>
  ELSE res.vlist

next_rule_stop_on_error(i, res, n) == IF res.raised THEN n + 1 ELSE i + 1

next_rule(i, res, n) == i + 1

(* run_rules up to the loop: the rows of d are read and the rules chosen.  *)
(* same records whether every run of d so far read the same rows with the  *)
(* same package arguments.                                                 *)
RunStart(d, package) ==
  LET ents     == get_entities(entities[d])
      evs      == get_events(events[d])
      profiles == infer_profiles(inp[d].doc, ents, evs)
      snap     == [package |-> package, entities |-> ents, events |-> evs, taken |-> TRUE]
  IN  /\ run[d].pc \in {"idle", "done", "failed"}
      /\ Runs < MaxRuns
      /\ run' = [run EXCEPT ![d] =
                   [pc |-> "eval", snap |-> snap, profiles |-> profiles,
                    rules |-> load_active_rules(norm_rules, profiles, package),
                    i |-> 1, tx |-> <<>>, written |-> <<>>, failed |-> {},
                    runs |-> @.runs + 1,
                    same |-> @.same /\ (@.snap.taken => @.snap = snap),
                    result |-> NoResult, evaluated |-> <<>>, stale |-> FALSE]]
      /\ UNCHANGED <<inp, out, events, entities, violations, norm_rules, norm_packages, proc>>

(* The row the loop is at: an element of the list load_active_rules gave   *)
(* the run, not a row read again from norm_rules.                          *)
current_rule_reloaded(rn, catalog) ==
  CHOOSE c \in catalog : /\ c.pkg_id = rn.rules[rn.i].pkg_id
                         /\ c.rule_id = rn.rules[rn.i].rule_id

current_rule(rn, catalog) == rn.rules[rn.i]

(* One pass of the loop body for rule number i of the run.                 *)
RunEval(d) ==
  LET r     == current_rule(run[d], norm_rules)
      impl  == r.rule_id \in ImplIds
      res   == IF impl
               THEN RULE_IMPL(r.rule_id, inp[d].doc, inp[d].sections,
                              run[d].snap.entities, run[d].snap.events, r.params)
               ELSE Returned(<<>>)
      vlist == Outcome(r, res)
      conn  == InsertAll(Conn(violations[d], run[d].tx), vlist, r.rule_id, 1)
  IN  /\ run[d].pc = "eval"
      /\ run[d].i <= Len(run[d].rules)
      /\ (vlist # <<>> /\ run[d].tx = <<>>) => ~WriteLocked
      /\ violations' = [violations EXCEPT ![d] = conn.store]
      /\ run' = [run EXCEPT ![d].tx = conn.tx,
                            ![d].written = @ \o [k \in 1..Len(vlist) |-> Row(vlist[k], r.rule_id)],
                            ![d].failed = IF res.raised THEN @ \cup {r.rule_id} ELSE @,
                            ![d].evaluated = Append(@, r),
                            ![d].i = next_rule(@, res, Len(run[d].rules))]
      /\ UNCHANGED <<inp, out, events, entities, norm_rules, norm_packages, proc>>

(* conn.commit(); conn.close() and the value run_rules returns.            *)
RunCommit(d) ==
  LET conn == conn_close(conn_commit(Conn(violations[d], run[d].tx)))
  IN  /\ run[d].pc = "eval"
      /\ run[d].i > Len(run[d].rules)
      /\ violations' = [violations EXCEPT ![d] = conn.store]
      /\ run' = [run EXCEPT ![d].pc = "done", ![d].tx = conn.tx,
                            ![d].result = [profiles |-> run[d].profiles,
                                           rules_checked |-> Len(run[d].rules),
                                           violations |-> Len(run[d].written)]]
      /\ UNCHANGED <<inp, out, events, entities, norm_rules, norm_packages, proc>>

(* The process ends before its commit (it is killed, or an INSERT gives up *)
(* waiting for the write lock): the connection goes away uncommitted.      *)
RunAbort(d) ==
  LET conn == conn_close(Conn(violations[d], run[d].tx))
  IN  /\ run[d].pc = "eval"
      /\ violations' = [violations EXCEPT ![d] = conn.store]
      /\ run' = [run EXCEPT ![d].pc = "failed", ![d].tx = conn.tx]
      /\ UNCHANGED <<inp, out, events, entities, norm_rules, norm_packages, proc>>

Next ==
  \E d \in Docs :
    \/ RunEntities(d)
    \/ RunTimeline(d)
    \/ \E package \in PackageArgs : RunStart(d, package)
    \/ RunEval(d)
    \/ RunCommit(d)
    \/ RunAbort(d)

Spec == Init /\ [][Next]_vars

---------------------------------------------------------------------------
(* Properties of the pipeline (Spec).                                      *)

(* C1: after any number of consecutive rule runs on the same doc_id that   *)
(* all read the same document, events, entities and catalog, the           *)
(* violations stored for the doc_id are those of a single run: no          *)
(* duplicates and no rows left from earlier runs.                          *)
C1_NoAccumulation ==
  \A d \in Docs :
    (run[d].pc = "done" /\ run[d].same) => violations[d] = run[d].written

FromOthers(d) ==
  Pick(run[d].written, {k \in 1..Len(run[d].written) :
                          run[d].written[k].sources \notin run[d].failed})

RECURSIVE RowsOf(_, _, _)
RowsOf(d, rules, k) ==
  IF k > Len(rules) THEN <<>>
  ELSE LET r   == rules[k]
           res == RULE_IMPL(r.rule_id, inp[d].doc, inp[d].sections,
                            run[d].snap.entities, run[d].snap.events, r.params)
       IN  (IF r.rule_id \in ImplIds /\ ~res.raised
            THEN [j \in 1..Len(res.vlist) |-> Row(res.vlist[j], r.rule_id)]
            ELSE <<>>) \o RowsOf(d, rules, k + 1)

IsSuffix(s, t) == Len(s) <= Len(t) /\ s = SubSeq(t, Len(t) - Len(s) + 1, Len(t))

(* C2: when the evaluator of one of the N selected rules raises, each of   *)
(* the other rules is still evaluated, and the rows the finished run has   *)
(* stored for them are the rows a run without the raising rule stores.     *)
C2_FailureIsolated ==
  \A d \in Docs :
    run[d].pc = "done" =>
      /\ FromOthers(d) = RowsOf(d, run[d].rules, 1)
      /\ IsSuffix(run[d].written, violations[d])

C2_Witness ==
  \E d \in Docs :
    /\ run[d].pc = "done"
    /\ \E i, j \in 1..Len(run[d].rules) :
         /\ i < j
         /\ run[d].rules[i].rule_id \in run[d].failed
         /\ run[d].rules[j].rule_id \notin run[d].failed
         /\ \E k \in 1..Len(violations[d]) :
              violations[d][k].sources = run[d].rules[j].rule_id

(* C3: the violations table of a doc_id changes only at the commit of a    *)
(* rule run, and then by all the rows of that run at once; a run that ends *)
(* before its commit leaves the table as it was.                           *)
C3_AtomicVisibility ==
  [][\A d \in Docs :
       \/ violations'[d] = violations[d]
       \/ /\ run[d].pc = "eval" /\ run'[d].pc = "done"
          /\ violations'[d] = violations[d] \o run[d].written]_vars

C3_Witness ==
  \E d, e \in Docs :
    /\ run[d].pc = "done" /\ Len(run[d].written) >= 2
    /\ violations[d] = run[d].written
    /\ run[e].pc = "failed" /\ run[e].written # <<>> /\ violations[e] = <<>>

(* C5: running build_timeline or run_entities again on unchanged sections, *)
(* entities and text leaves the stored events of the doc_id as the first   *)
(* run left them: the same events in the same order, none twice.           *)
C5_RebuildIdempotent ==
  [][\A d \in Docs :
       ( \/ (out[d].op = "entities" /\ RunEntities(d))
         \/ (out[d].op = "timeline" /\ out[d].error = "" /\ RunTimeline(d)) )
       => events'[d] = events[d]]_vars

---------------------------------------------------------------------------
(* One call of infer_profiles on given events (SpecProfiles).              *)

MaxProfileEvents == 3

ProfileEvents ==
  { Ev("admit", T(1, 8, 0)), Ev("admit", None),
    Ev("discharge", T(1, 18, 0)), Ev("discharge", T(3, 10, 0)), Ev("discharge", None),
    Ev("triage", T(1, 8, 20)) }

ProfileDepts == {{}, {"pediatr"}, {"dnevn"}}

ProfileInputs ==
  {[doc |-> Doc(None, TRUE, dept), entities |-> <<>>, events |-> evs] :
     dept \in ProfileDepts, evs \in SeqsUpTo(ProfileEvents, MaxProfileEvents)}

NoProfiles == [done |-> FALSE, profiles |-> {}]

InitProfiles ==
  /\ inp \in ProfileInputs
  /\ out = NoProfiles
  /\ events = EmptyTable
  /\ entities = EmptyTable
  /\ violations = EmptyTable
  /\ norm_rules = Catalog
  /\ norm_packages = NormPackages
  /\ proc = NoProc
  /\ run = <<>>

InferProfiles ==
  /\ out = NoProfiles
  /\ out' = [done |-> TRUE, profiles |-> infer_profiles(inp.doc, inp.entities, inp.events)]
  /\ UNCHANGED <<inp, events, entities, violations, norm_rules, run, norm_packages, proc>>

NextProfiles == InferProfiles

SpecProfiles == InitProfiles /\ [][NextProfiles]_vars

Inferred == out.done

SameDate ==
  \E i \in WithInstant({"admit"}), j \in WithInstant({"discharge"}) :
    DayOf(inp.events[i].ts) = DayOf(inp.events[j].ts)

(* C12: whenever some admit event and some discharge event have instants   *)
(* on the same calendar date, the set infer_profiles returns contains DAY, *)
(* whatever other events are present and in whatever order.                *)
C12_DayWhenSameDate == (Inferred /\ SameDate) => "DAY" \in out.profiles

(* C13: infer_profiles adds STA only when an admit instant resolves with   *)
(* no discharge on the same date, or as the default when no other profile  *)
(* was added; with admit and discharge on the same date the result has DAY *)
(* and does not have STA.                                                  *)
C13_StaOnlyBaseline ==
  Inferred =>
    /\ "STA" \in out.profiles =>
         \/ (WithInstant({"admit"}) # {} /\ ~SameDate)
         \/ out.profiles = {"STA"}
    /\ SameDate => ("DAY" \in out.profiles /\ "STA" \notin out.profiles)

---------------------------------------------------------------------------
(* One call of load_active_rules on the catalog (SpecCatalog).  now is the *)
(* day of the run.                                                         *)

ProfileSets == {S \cup {"STA"} : S \in SUBSET {"ER", "OBG", "PED", "DAY"}}

PackageNames == {NoArg, "rules-pack-stationary-er", "rules-pack-other"}

PackageVersions == {NoArg, "2025-09-07", "2025-10-01"}

NowDays == {1, 2, 4}

CatalogInputs ==
  {[profiles |-> ps, package |-> <<n, v>>, now |-> t] :
     ps \in ProfileSets, n \in PackageNames, v \in PackageVersions, t \in NowDays}

NoRules == [done |-> FALSE, rules |-> <<>>]

InitCatalog ==
  /\ inp \in CatalogInputs
  /\ out = NoRules
  /\ events = EmptyTable
  /\ entities = EmptyTable
  /\ violations = EmptyTable
  /\ norm_rules = Catalog
  /\ norm_packages = NormPackages
  /\ proc = NoProc
  /\ run = <<>>

LoadActiveRules ==
  /\ out = NoRules
  /\ out' = [done |-> TRUE, rules |-> load_active_rules(norm_rules, inp.profiles, inp.package)]
  /\ UNCHANGED <<inp, events, entities, violations, norm_rules, run, norm_packages, proc>>

NextCatalog == LoadActiveRules

SpecCatalog == InitCatalog /\ [][NextCatalog]_vars

Loaded == out.done

PackageOf(r) == CHOOSE p \in NormPackages : p.pkg_id = r.pkg_id

(* C14: every rule load_active_rules returns is enabled, has a profile of  *)
(* the inferred profile set, and belongs to the package (and version) the  *)
(* caller names whenever the caller names one, otherwise to a package      *)
(* marked active.                                                          *)
C14_LoadFilters ==
  Loaded =>
    \A k \in 1..Len(out.rules) :
      /\ out.rules[k].enabled
      /\ out.rules[k].profile \in inp.profiles
      /\ IF inp.package[1] # NoArg
         THEN /\ PackageOf(out.rules[k]).name = inp.package[1]
              /\ inp.package[2] # NoArg => PackageOf(out.rules[k]).version = inp.package[2]
         ELSE out.rules[k].pkg_id \in ActivePkgs

InWindow(r, now) ==
  /\ r.effective_from # Absent => r.effective_from <= now
  /\ r.effective_to # Absent => now <= r.effective_to

(* C15: a rule whose window [effective_from, effective_to] does not        *)
(* contain the time of the run is never returned by load_active_rules.     *)
C15_EffectiveWindow ==
  Loaded => \A k \in 1..Len(out.rules) : InWindow(out.rules[k], inp.now)

---------------------------------------------------------------------------
(* Properties of a finished rule run (Spec).                               *)

Evaluators(d) == {k \in 1..Len(run[d].rules) : run[d].rules[k].rule_id \in ImplIds}

(* C16: a selected rule whose rule_id has no evaluator in RULE_IMPL stores *)
(* no violation and does not stop the run, and the number of evaluated     *)
(* rules the run reports does not count it.                                *)
C16_MissingEvaluator ==
  \A d \in Docs :
    run[d].pc = "done" =>
      /\ \A k \in 1..Len(run[d].written) : run[d].written[k].sources \in ImplIds
      /\ run[d].result.rules_checked = Cardinality(Evaluators(d))

RowsFrom(d, rid) ==
  {k \in 1..Len(run[d].written) : run[d].written[k].sources = rid}

(* C17: when the evaluator of a rule raises, the run stores exactly one    *)
(* violation for that rule, of severity minor whatever severity the rule   *)
(* is configured with, and its message carries the error text.             *)
C17_ErrorIsMinor ==
  \A d \in Docs :
    run[d].pc = "done" =>
      \A rid \in run[d].failed :
        /\ Cardinality(RowsFrom(d, rid)) = 1
        /\ \A k \in RowsFrom(d, rid) :
             /\ run[d].written[k].rule_id = rid
             /\ run[d].written[k].severity = "minor"
             /\ run[d].written[k].message.kind = "error"
             /\ run[d].written[k].message.err # ""

---------------------------------------------------------------------------
(* Properties of the pipeline over two documents (Spec).                   *)

(* The step is one of an operation on d: every action changes the return   *)
(* value or the run record of the document it was called for.              *)
OperationOn(d) == out'[d] # out[d] \/ run'[d] # run[d]

(* C18: an operation on one doc_id (a rule run, a timeline build, an       *)
(* entity extraction) writes or deletes only rows of that doc_id: the      *)
(* events, entities and violations stored for every other document are     *)
(* left as they were, under any interleaving.                              *)
C18_OtherDocsUntouched ==
  [][\A d \in Docs :
       OperationOn(d) =>
         \A e \in Docs \ {d} :
           /\ events'[e] = events[e]
           /\ entities'[e] = entities[e]
           /\ violations'[e] = violations[e]]_vars

C18_Witness ==
  \E d, e \in Docs :
    /\ d # e
    /\ out[d].op = "timeline" /\ out[d].error = "" /\ events[d] # <<>>
    /\ events[e] # <<>>
    /\ run[d].pc = "done" /\ violations[d] # <<>>
    /\ run[e].pc = "done" /\ violations[e] # <<>>

(* C26: the events the read path hands to infer_profiles and to the rule   *)
(* evaluators for a doc_id are ordered by instant, null instants last,     *)
(* whatever order the rows were inserted in.                               *)
C26_ReadPathOrdered ==
  \A d \in Docs :
    run[d].snap.taken =>
      \A i, j \in 1..Len(run[d].snap.events) :
        i < j =>
          /\ ~(run[d].snap.events[i].ts = None /\ run[d].snap.events[j].ts # None)
          /\ (IsIso(run[d].snap.events[i].ts) /\ IsIso(run[d].snap.events[j].ts))
               => TimeOf(run[d].snap.events[i].ts) <= TimeOf(run[d].snap.events[j].ts)

(***************************************************************************)
(* The catalog administration commands running beside run_rules.  Both     *)
(* documents have been through run_entities; the administrator changes one *)
(* rule of the active package at any moment, also between two passes of a  *)
(* run's loop.                                                             *)
(***************************************************************************)
AdminStore == [d \in Docs |-> IF d = "A" THEN Inpatient ELSE NoText]

AdminRules == {"STA-002"}

AdminKeys == {"within_hours"}

AdminValues == {1}

InitAdmin ==
  /\ inp = AdminStore
  /\ out = [d \in Docs |-> [op |-> "entities", error |-> "",
                            events |-> Len(ExtractedEvents(AdminStore[d].text)),
                            entities |-> Len(ExtractedEntities(AdminStore[d].text)),
                            n |-> 1]]
  /\ events = [d \in Docs |-> ExtractedEvents(AdminStore[d].text)]
  /\ entities = [d \in Docs |-> ExtractedEntities(AdminStore[d].text)]
  /\ violations = EmptyTable
  /\ norm_rules = Catalog
  /\ norm_packages = NormPackages
  /\ proc = NoProc
  /\ run = [d \in Docs |-> IdleRun]

(* The administrator's UPDATE commits on its own connection; every run     *)
(* whose loop is under way is marked as having seen the catalog change.    *)
Overtaken == [d \in Docs |-> [run[d] EXCEPT !.stale = @ \/ run[d].pc = "eval"]]

cmd_set_param(pkg_id, rule, key, val) ==
  /\ ~WriteLocked
  /\ \E c \in norm_rules : c.pkg_id = pkg_id /\ c.rule_id = rule
  /\ norm_rules' = {IF c.pkg_id = pkg_id /\ c.rule_id = rule
                    THEN [c EXCEPT !.params = [@ EXCEPT ![key] = val]]
                    ELSE c : c \in norm_rules}
  /\ norm_rules' # norm_rules
  /\ run' = Overtaken
  /\ UNCHANGED <<inp, out, events, entities, violations, norm_packages, proc>>

cmd_enable_disable(pkg_id, rule, enable) ==
  /\ ~WriteLocked
  /\ norm_rules' = {IF c.pkg_id = pkg_id /\ c.rule_id = rule
                    THEN [c EXCEPT !.enabled = enable]
                    ELSE c : c \in norm_rules}
  /\ norm_rules' # norm_rules
  /\ run' = Overtaken
  /\ UNCHANGED <<inp, out, events, entities, violations, norm_packages, proc>>

NextAdmin ==
  \/ \E d \in Docs :
       \/ \E package \in PackageArgs : RunStart(d, package)
       \/ RunEval(d)
       \/ RunCommit(d)
       \/ RunAbort(d)
  \/ \E pkg_id \in ActivePkgs, rule \in AdminRules :
       \/ \E key \in AdminKeys, val \in AdminValues : cmd_set_param(pkg_id, rule, key, val)
       \/ \E enable \in BOOLEAN : cmd_enable_disable(pkg_id, rule, enable)

SpecAdmin == InitAdmin /\ [][NextAdmin]_vars

(* C19: a run evaluates the rules, with the parameters, that               *)
(* load_active_rules returned when the run started: the rules evaluated so *)
(* far are the first rows of that list, unchanged, and the rows a finished *)
(* run stored are the ones those rows produce, whatever the administrator  *)
(* changed in norm_rules while the loop was under way.                     *)
C19_CatalogSnapshot ==
  \A d \in Docs :
    run[d].pc \in {"eval", "done"} =>
      /\ run[d].evaluated = SubSeq(run[d].rules, 1, run[d].i - 1)
      /\ run[d].pc = "done" => FromOthers(d) = RowsOf(d, run[d].rules, 1)

(* A finished run during which the catalog was changed: a rule the run     *)
(* evaluated is no longer a row of norm_rules.                             *)
C19_Witness ==
  \E d \in Docs :
    /\ run[d].pc = "done" /\ run[d].stale
    /\ \E k \in 1..Len(run[d].evaluated) : run[d].evaluated[k] \notin norm_rules

(***************************************************************************)
(* The package administration: the commands of medqc_norms_admin.py and    *)
(* the norms endpoints of medqc_api.py, run by two administrators on the   *)
(* same database.  cmd_export reads the package row on one connection      *)
(* (ExportResolve) and writes digest, status and lock on another           *)
(* (ExportWrite); every other command is one transaction.                  *)
(***************************************************************************)
Admins == {"admin1", "admin2"}

IdleCmd == [pc |-> "idle", pkg |-> Package(0, NoArg, NoArg), freeze |-> FALSE]

get_pkg(table, name, version) == {p \in table : p.name = name /\ p.version = version}

create_pkg(table, name, version) ==
  table \cup {Package(1 + Cardinality(table), name, version)}

(* UPDATE the row (pkg_id, rule_id) if there is one, INSERT it otherwise.   *)
upsert_rule(catalog, pkg_id, rule) ==
  {c \in catalog : ~(c.pkg_id = pkg_id /\ c.rule_id = rule.rule_id)}
    \cup {[rule EXCEPT !.pkg_id = pkg_id]}

RECURSIVE UpsertAll(_, _, _, _)
UpsertAll(catalog, pkg_id, rules, k) ==
  IF k > Len(rules) THEN catalog
  ELSE UpsertAll(upsert_rule(catalog, pkg_id, rules[k]), pkg_id, rules, k + 1)

EditedRule == "STA-002"

RuleArgs == { Rule(EditedRule, "STA", "minor", TRUE, 0, DefaultParams) }

ImportVersions == {"2025-09-07", "2025-11-01"}

Severities == {"minor"}

(* The package the administrators edit and export.                         *)
EditedVersion == "2025-09-07"

(* body.severity and body.enabled are None (NoArg) or a value; the params  *)
(* of the body are merged into the stored ones.                            *)
PatchBodies == { [severity |-> NoArg, enabled |-> "0", within_hours |-> 1] }

InitPackages ==
  /\ inp = <<>>
  /\ out = <<>>
  /\ events = EmptyTable
  /\ entities = EmptyTable
  /\ violations = EmptyTable
  /\ norm_rules = Catalog
  /\ run = [d \in Docs |-> IdleRun]
  /\ norm_packages = NormPackages
  /\ proc = [a \in Admins |-> IdleCmd]

cmd_import_json(name, version, rules) ==
  LET table  == IF get_pkg(norm_packages, name, version) = {}
                THEN create_pkg(norm_packages, name, version) ELSE norm_packages
      pkg    == CHOOSE p \in get_pkg(table, name, version) : TRUE
  IN  /\ norm_packages' = table
      /\ norm_rules' = UpsertAll(norm_rules, pkg.pkg_id, rules, 1)
      /\ UNCHANGED <<inp, out, events, entities, violations, run, proc>>

cmd_add_rule(pkg_id, rule) ==
  /\ norm_rules' = upsert_rule(norm_rules, pkg_id, rule)
  /\ UNCHANGED <<inp, out, events, entities, violations, run, norm_packages, proc>>

cmd_set_severity(pkg_id, rule, severity) ==
  /\ norm_rules' = {IF c.pkg_id = pkg_id /\ c.rule_id = rule
                    THEN [c EXCEPT !.severity = severity] ELSE c : c \in norm_rules}
  /\ UNCHANGED <<inp, out, events, entities, violations, run, norm_packages, proc>>

norms_patch(pkg_id, rule_id, body) ==
  /\ \E c \in norm_rules : c.pkg_id = pkg_id /\ c.rule_id = rule_id
  /\ norm_rules' =
       {IF c.pkg_id = pkg_id /\ c.rule_id = rule_id
        THEN [c EXCEPT !.severity = IF body.severity = NoArg THEN @ ELSE body.severity,
                       !.enabled  = IF body.enabled = NoArg THEN @ ELSE body.enabled = "1",
                       !.params   = IF body.within_hours = Absent THEN @
                                    ELSE [@ EXCEPT !.within_hours = body.within_hours]]
        ELSE c : c \in norm_rules}
  /\ UNCHANGED <<inp, out, events, entities, violations, run, norm_packages, proc>>

(* pkg = _resolve_pkg_or_fail(name, version): the row as it is now.         *)
ExportResolve(a, name, version, freeze) ==
  /\ proc[a].pc = "idle"
  /\ get_pkg(norm_packages, name, version) # {}
  /\ proc' = [proc EXCEPT ![a] =
                [pc |-> "resolved", freeze |-> freeze,
                 pkg |-> CHOOSE p \in get_pkg(norm_packages, name, version) : TRUE]]
  /\ UNCHANGED <<inp, out, events, entities, violations, norm_rules, run, norm_packages>>

(* UPDATE norm_packages SET digest, status, locked from the row read by    *)
(* ExportResolve.                                                          *)
ExportWrite(a) ==
  LET pkg == proc[a].pkg
  IN  /\ proc[a].pc = "resolved"
      /\ norm_packages' =
           {IF p.pkg_id = pkg.pkg_id
            THEN [p EXCEPT !.digest = TRUE,
                           !.status = IF proc[a].freeze THEN "frozen" ELSE pkg.status,
                           !.locked = IF proc[a].freeze THEN 1 ELSE pkg.locked]
            ELSE p : p \in norm_packages}
      /\ proc' = [proc EXCEPT ![a] = IdleCmd]
      /\ UNCHANGED <<inp, out, events, entities, violations, norm_rules, run>>

NextPackages ==
  \/ \E version \in ImportVersions, rules \in SeqsUpTo(RuleArgs, 1) :
       cmd_import_json("rules-pack-stationary-er", version, rules)
  \/ \E p \in get_pkg(norm_packages, "rules-pack-stationary-er", EditedVersion) :
       \/ \E rule \in RuleArgs : cmd_add_rule(p.pkg_id, rule)
       \/ \E severity \in Severities : cmd_set_severity(p.pkg_id, EditedRule, severity)
       \/ \E key \in AdminKeys, val \in AdminValues :
            cmd_set_param(p.pkg_id, EditedRule, key, val)
       \/ \E enable \in BOOLEAN : cmd_enable_disable(p.pkg_id, EditedRule, enable)
       \/ \E body \in PatchBodies : norms_patch(p.pkg_id, EditedRule, body)
       \/ \E a \in Admins, freeze \in BOOLEAN : ExportResolve(a, p.name, p.version, freeze)
  \/ \E a \in Admins : ExportWrite(a)

SpecPackages == InitPackages /\ [][NextPackages]_vars

RulesOf(catalog, pkg_id) == {c \in catalog : c.pkg_id = pkg_id}

Frozen(p) == p.status = "frozen" /\ p.locked = 1

(* C22: once a package has been exported with freeze (status frozen,       *)
(* locked = 1) no later operation changes any rule of that package: its    *)
(* rules are the same after every step.                                    *)
C22_FrozenRulesImmutable ==
  [][\A p \in norm_packages :
       Frozen(p) => RulesOf(norm_rules', p.pkg_id) = RulesOf(norm_rules, p.pkg_id)]_vars

(* C30: a package's status only moves from draft to frozen: a package that *)
(* is frozen and locked stays so after every step, and the write of an     *)
(* export without freeze leaves the status and the lock of every package   *)
(* as they were.                                                           *)
C30_DraftToFrozenOnly ==
  [][/\ \A p \in norm_packages :
          Frozen(p) => \E q \in norm_packages' : q.pkg_id = p.pkg_id /\ Frozen(q)
     /\ \A a \in Admins :
          (proc[a].pc = "resolved" /\ ~proc[a].freeze /\ proc'[a].pc = "idle")
            => \A p \in norm_packages :
                 \E q \in norm_packages' :
                    q.pkg_id = p.pkg_id /\ q.status = p.status /\ q.locked = p.locked]_vars

(***************************************************************************)
(* The orchestrator: orchestrate_one runs the listed steps on document "A" *)
(* one after the other, each as a child program that it waits for.  The    *)
(* file of the document is OrchFile; inp holds what extract and section    *)
(* have stored of it so far.                                               *)
(***************************************************************************)
DEFAULT_STEPS == <<"extract", "section", "entities", "timeline", "rules", "report">>

OrchDoc == "A"

(* The text of Plain has none of the phrases run_entities looks for.       *)
Plain == [Inpatient EXCEPT !.text = <<>>]

OrchFiles == [inpatient |-> Inpatient, plain |-> Plain]

Unprocessed == [doc |-> Doc(EmptyStr, FALSE, {}), sections |-> <<>>, text |-> <<>>]

StepLists ==
  { DEFAULT_STEPS, <<"ingest", "entities", "timeline">>, <<"extract", "rules", "report">>,
    <<"timeline", "section", "rules">> }

OrchArgs ==
  { [steps |-> steps, force |-> force, keep_going |-> kg, rules |-> NoArg,
     pkg |-> pk[1], version |-> pk[2], profiles |-> pk[3], include_disabled |-> FALSE,
     file |-> f, file_ok |-> ok] :
      steps \in StepLists, force \in {NoArg, "extract", "timeline"}, kg \in BOOLEAN,
      pk \in { <<NoArg, NoArg, NoArg>>,
               <<"rules-pack-stationary-er", "2025-09-07", NoArg>>,
               <<"rules-pack-stationary-er", "2025-09-07", "STA">> },
      f \in DOMAIN OrchFiles, ok \in BOOLEAN }

probe_state(docrow, ents, evs, viol) ==
  [has_text |-> docrow.doc.has_text, sections |-> Len(docrow.sections),
   entities |-> Len(ents), events |-> Len(evs), violations |-> Len(viol)]

(* The argument list step_rules gives the rules program (the option names). *)
step_rules(rjson, pkg, ver, profiles, include_disabled) ==
  {"--doc-id"} \cup
  ( IF rjson # NoArg THEN {"--rules"}
    ELSE IF pkg # NoArg /\ ver # NoArg
         THEN {"--pkg", "--version"}
                \cup (IF profiles # NoArg THEN {"--profiles"} ELSE {})
                \cup (IF include_disabled THEN {"--include-disabled"} ELSE {})
         ELSE {} )

(* The options main of medqc_rules.py declares; parse_args ends the        *)
(* program with status 2 on any other (none of the names above is an       *)
(* abbreviation of one of these).                                          *)
RulesOptions == {"--doc-id", "--package-name", "--package-version"}

(* Whether the child program of step s ends with a non-zero status.        *)
StepFails(s, args) ==
  CASE s = "extract" -> ~args.file_ok
    [] s = "rules"   -> ~(step_rules(args.rules, args.pkg, args.version, args.profiles,
                                      args.include_disabled) \subseteq RulesOptions)
    [] OTHER         -> FALSE

need_step_unforced(s, args, st) ==
  CASE s = "extract"  -> ~st.has_text
    [] s = "section"  -> st.sections = 0
    [] s = "entities" -> st.entities = 0
    [] s = "timeline" -> st.events = 0
    [] OTHER          -> TRUE

need_step(s, args, st) ==
  CASE s = "extract"  -> args.force = "extract" \/ ~st.has_text
    [] s = "section"  -> args.force = "section" \/ st.sections = 0
    [] s = "entities" -> args.force = "entities" \/ st.entities = 0
    [] s = "timeline" -> args.force = "timeline" \/ st.events = 0
    [] OTHER          -> TRUE

after_error_stop(i, n, keep_going) == n + 1

(* except: if not args.keep_going: break                                   *)
after_error(i, n, keep_going) == IF keep_going THEN i + 1 ELSE n + 1

(* The rows one run_rules call stores for the document.                    *)
RECURSIVE RulesRows(_, _, _, _, _)
RulesRows(docrow, ents, evs, rules, k) ==
  IF k > Len(rules) THEN <<>>
  ELSE LET r   == rules[k]
           res == IF r.rule_id \in ImplIds
                  THEN RULE_IMPL(r.rule_id, docrow.doc, docrow.sections, ents, evs, r.params)
                  ELSE Returned(<<>>)
           vl  == Outcome(r, res)
       IN  [j \in 1..Len(vl) |-> Row(vl[j], r.rule_id)]
             \o RulesRows(docrow, ents, evs, rules, k + 1)

(* What the child program of step s leaves in the store.                   *)
StepStore(s, args, docrow, ents, evs, viol) ==
  LET file == OrchFiles[args.file]
      same == [docrow |-> docrow, ents |-> ents, evs |-> evs, viol |-> viol]
  IN  CASE s = "extract" ->
             [same EXCEPT !.docrow = [docrow EXCEPT !.doc.has_text = TRUE, !.text = file.text]]
        [] s = "section" ->
             IF docrow.doc.has_text
             THEN [same EXCEPT !.docrow = [docrow EXCEPT !.sections = file.sections]]
             ELSE same
        [] s = "entities" ->
             IF docrow.doc.has_text
             THEN [same EXCEPT !.evs  = insert_event(evs, ExtractedEvents(docrow.text)),
                               !.ents = insert_entity(ents, ExtractedEntities(docrow.text))]
             ELSE same
        [] s = "timeline" ->
             LET res == build_timeline(docrow.doc, docrow.sections, ents)
             IN  IF res.error = ""
                 THEN [same EXCEPT !.evs = replace_events(evs, res.events)]
                 ELSE same
        [] s = "rules" ->
             LET es == get_entities(ents)
                 vs == get_events(evs)
                 rs == load_active_rules(norm_rules, infer_profiles(docrow.doc, es, vs),
                                         <<NoArg, NoArg>>)
             IN  [same EXCEPT !.viol = viol \o RulesRows(docrow, es, vs, rs, 1)]
        [] OTHER -> same

NoState == [has_text |-> FALSE, sections |-> 0, entities |-> 0, events |-> 0,
            violations |-> 0]

OrchStores ==
  { [d \in Docs |-> Unprocessed],
    [d \in Docs |-> IF d = OrchDoc THEN Inpatient ELSE Unprocessed] }

InitOrch ==
  /\ inp \in OrchStores
  /\ out = [d \in Docs |-> NoReturn]
  /\ events = EmptyTable
  /\ entities = EmptyTable
  /\ violations = EmptyTable
  /\ norm_rules = Catalog
  /\ run = [d \in Docs |-> IdleRun]
  /\ norm_packages = NormPackages
  /\ \E args \in OrchArgs :
       proc = [pc |-> "loop", args |-> args, i |-> 1,
               state_before |-> probe_state(inp[OrchDoc], <<>>, <<>>, <<>>),
               results |-> {}, errors |-> {}, state |-> NoState, trace |-> <<>>]

(* One pass of "for s in steps": the try, except and finally blocks.        *)
OrchStep ==
  LET d      == OrchDoc
      args   == proc.args
      s      == args.steps[proc.i]
      need   == need_step(s, args, proc.state_before)
      fails  == need /\ StepFails(s, args)
      now    == [docrow |-> inp[d], ents |-> entities[d], evs |-> events[d],
                 viol |-> violations[d]]
      after  == IF need /\ ~fails
                THEN StepStore(s, args, inp[d], entities[d], events[d], violations[d])
                ELSE now
  IN  /\ proc.pc = "loop"
      /\ proc.i <= Len(args.steps)
      /\ s # "ingest"
      /\ inp' = [inp EXCEPT ![d] = after.docrow]
      /\ entities' = [entities EXCEPT ![d] = after.ents]
      /\ events' = [events EXCEPT ![d] = after.evs]
      /\ violations' = [violations EXCEPT ![d] = after.viol]
      /\ proc' = [proc EXCEPT
                    !.i = IF fails THEN after_error(@, Len(args.steps), args.keep_going)
                          ELSE @ + 1,
                    !.results = IF need /\ ~fails THEN @ \cup {s} ELSE @,
                    !.errors = IF fails THEN @ \cup {s} ELSE @,
                    !.state_before = probe_state(after.docrow, after.ents, after.evs, after.viol),
                    !.trace = Append(@, [step |-> s, at |-> proc.i, executed |-> need,
                                         raised |-> fails,
                                         found |-> probe_state(now.docrow, now.ents, now.evs,
                                                               now.viol)])]
      /\ UNCHANGED <<out, norm_rules, run, norm_packages>>

(* if s == 'ingest': continue                                              *)
OrchSkipIngest ==
  /\ proc.pc = "loop"
  /\ proc.i <= Len(proc.args.steps)
  /\ proc.args.steps[proc.i] = "ingest"
  /\ proc' = [proc EXCEPT !.i = @ + 1]
  /\ UNCHANGED <<inp, out, events, entities, violations, norm_rules, run, norm_packages>>

(* results['state'] = state_before; return results                         *)
OrchReturn ==
  /\ proc.pc = "loop"
  /\ proc.i > Len(proc.args.steps)
  /\ proc' = [proc EXCEPT !.pc = "returned", !.state = proc.state_before]
  /\ UNCHANGED <<inp, out, events, entities, violations, norm_rules, run, norm_packages>>

NextOrch == OrchStep \/ OrchSkipIngest \/ OrchReturn

SpecOrch == InitOrch /\ [][NextOrch]_vars

OrchReturned == proc.pc = "returned"

Listed == {k \in 1..Len(proc.args.steps) : proc.args.steps[k] # "ingest"}

Reached == {proc.trace[j].at : j \in 1..Len(proc.trace)}

Ran(k) == \E j \in 1..Len(proc.trace) : proc.trace[j].at = k /\ proc.trace[j].executed

(* The state the step at position k found, or the final one if the loop    *)
(* never came to it.                                                       *)
FoundAt(k) ==
  IF k \in Reached
  THEN proc.trace[CHOOSE j \in 1..Len(proc.trace) : proc.trace[j].at = k].found
  ELSE proc.state

OutputAbsent(s, st) ==
  CASE s = "extract"  -> ~st.has_text
    [] s = "section"  -> st.sections = 0
    [] s = "entities" -> st.entities = 0
    [] s = "timeline" -> st.events = 0
    [] OTHER          -> FALSE

Wanted(s, st) ==
  IF s \in {"rules", "report"} THEN TRUE
  ELSE proc.args.force = s \/ OutputAbsent(s, st)

C25_PinnedPackageRuns ==
  (/\ OrchReturned
   /\ proc.args.pkg # NoArg /\ proc.args.version # NoArg
   /\ \E j \in 1..Len(proc.trace) : proc.trace[j].step = "rules")
    => "rules" \in proc.results /\ "rules" \notin proc.errors

ExecutedSteps ==
  LET js == {j \in 1..Len(proc.trace) : proc.trace[j].executed}
  IN  Pick([j \in 1..Len(proc.trace) |-> proc.trace[j].step], js)

(* C28: on a document without prior outputs for which every step succeeds, *)
(* a default run executes extract, section, entities, timeline, rules,     *)
(* report in that order, each exactly once.                                *)
C28_DefaultRunsAllSteps ==
  (/\ OrchReturned
   /\ proc.args.steps = DEFAULT_STEPS /\ proc.args.force = NoArg
   /\ proc.errors = {}
   /\ proc.trace[1].found = NoState)
    => ExecutedSteps = DEFAULT_STEPS

(***************************************************************************)
(* _normalize_kind applied to one upstream spelling of an event kind.      *)
(***************************************************************************)
KindInputs == KindStrings \cup {"ADMIT", "EKG", "Konsult", "epicrisis"}

NoKind == "?"

InitKinds ==
  /\ inp \in KindInputs
  /\ out = NoKind
  /\ events = EmptyTable
  /\ entities = EmptyTable
  /\ violations = EmptyTable
  /\ norm_rules = Catalog
  /\ run = <<>>
  /\ norm_packages = NormPackages
  /\ proc = NoProc

NormalizeKind ==
  /\ out = NoKind
  /\ out' = _normalize_kind(inp)
  /\ UNCHANGED <<inp, events, entities, violations, norm_rules, run, norm_packages, proc>>

NextKinds == NormalizeKind

SpecKinds == InitKinds /\ [][NextKinds]_vars

(* C29: _normalize_kind maps every synonym listed for a canonical kind,    *)
(* and any kind string containing it, to that canonical kind and to no     *)
(* other, whatever the order in which the canonical kinds are tried, and   *)
(* applying it twice gives the same as applying it once.                   *)
C29_SynonymToItsCanon ==
  out # NoKind =>
    /\ \A i \in 1..Len(RU_EVENT_SYNONYMS) :
         RU_EVENT_SYNONYMS[i].syns \cap Substrings(Lower(inp)) # {}
           => out = RU_EVENT_SYNONYMS[i].canon
    /\ _normalize_kind(out) = out

====
